---- MODULE Spec2Model ----
(***************************************************************************)
(* Snapshot log pipeline of tdestryk/music_data: the CSV logs written by   *)
(* the fetchers (spotify_stats_extended.py, youtube_stats_extended.py),    *)
(* rewritten by the dashboards (spotify_dashboard.py) and read back        *)
(* through the window / first-last aggregates.                            *)
(*                                                                         *)
(* Time is counted in ticks, TicksPerSec ticks to a second, so that an     *)
(* in-memory instant (pd.Timestamp.now, microsecond precision) can lie     *)
(* strictly between two persisted instants (second precision).             *)
(*                                                                         *)
(* A CSV row is a record [name, id, ts, val]: artist_name, artist_id       *)
(* (channel_id), the timestamp cell and one metric (followers / subs).     *)
(* A file is [exists, lines]; the first line of an existing file is its    *)
(* header.  writer is the rewrite of a file that is under way: a file is    *)
(* rewritten in place, by opening it for writing and writing its lines.    *)
(***************************************************************************)
EXTENDS Integers, Sequences, FiniteSets, TLC

VARIABLES files, parts, now, op, arg, before, out, steps, writer

vars == <<files, parts, now, op, arg, before, out, steps, writer>>

----------------------------------------------------------------------------
(* Bounds of the model                                                     *)

\* ticks per second: how many in-memory instants the model tells apart
\* inside one persisted second
TicksPerSec == 2
\* rows of the log a behaviour starts from
MaxPrior == 2
\* operations in one behaviour
MaxOps == 2
\* ingestion runs in one behaviour
MaxRuns == 2
\* ingestion runs recorded in a log that is evaluated for alerts
MaxSnaps == 3

----------------------------------------------------------------------------
(* Program constants and missing values                                    *)

\* dt.floor("T"): seconds in a minute
MinuteSecs == 60
\* pd.to_datetime(..., errors="coerce"): the not-a-time value of a cell that
\* does not parse (or is empty)
NaT == -1
\* a timestamp cell that holds text which does not parse; to_utc coerces it
\* to NaT, and NaT is written back as an empty cell
Garbage == -2
\* a missing metric cell (NaN / pd.NA)
NA == -1
\* a missing artist_id cell (the fetcher writes no artist_id column)
NoId == ""

\* RETENTION_DAYS (youtube_stats_extended.py), ROLLING_DAYS
\* (spotify_stats_extended.py)
RETENTION_DAYS == 90
ROLLING_DAYS == 90
\* timedelta(days=1) in seconds
DaySecs == 86400

\* pd.Timedelta(hours=1) in seconds
HourSecs == 3600
\* compute_window_alerts: pd.Timedelta(hours=24)
ALERT_WINDOW_HOURS == 24
\* spotify_dashboard.py, 7-day change: pd.Timedelta(days=7)
CHANGE_DAYS == 7

MinuteTicks == MinuteSecs * TicksPerSec
HourTicks == HourSecs * TicksPerSec
DayTicks == DaySecs * TicksPerSec

STATS_PATH == "spotify_stats.csv"
ARCHIVE_PATH == "archive/spotify_stats_archive.csv"
CHAN_CSV == "youtube_channel_stats.csv"
MAP_PATH == "youtube_channels.csv"
RUNS_LOG == "runs.log"
Paths == {STATS_PATH, ARCHIVE_PATH, CHAN_CSV, MAP_PATH, RUNS_LOG}

Absent == [exists |-> FALSE, lines |-> <<>>]
\* no rewrite under way
Idle == [pc |-> "idle", path |-> "", content |-> Absent, written |-> 0]
Header == [name |-> "artist_name", id |-> "artist_id", ts |-> NaT, val |-> NA]

Row(n, i, t, v) == [name |-> n, id |-> i, ts |-> t, val |-> v]

\* to_csv(p, index=False): the header line, then one line per row
to_csv(rows) == [exists |-> TRUE, lines |-> <<Header>> \o rows]

\* pd.read_csv(p): the rows under the header
read_csv(f) == IF Len(f.lines) = 0 THEN <<>> ELSE Tail(f.lines)

SeqToSet(s) == {s[i] : i \in 1..Len(s)}

\* number of positions of s that hold r
Count(s, r) == Cardinality({i \in 1..Len(s) : s[i] = r})

----------------------------------------------------------------------------
(* spotify_dashboard.py: time and CSV helpers                              *)

\* (mutant) a cell that does not parse is given a default instant
to_utc_default(t) == IF t >= 0 THEN t ELSE DayTicks

\* to_utc: a parsable cell is its instant, anything else is NaT
to_utc(t) == IF t >= 0 THEN t ELSE NaT

\* strftime("%Y-%m-%dT%H:%M:%SZ"): second precision; NaT formats to an
\* empty cell
strftime(t) == IF t = NaT THEN NaT ELSE (t \div TicksPerSec) * TicksPerSec

\* dt.floor("T")
floorT(t) == IF t = NaT THEN NaT ELSE (t \div MinuteTicks) * MinuteTicks

load_history(f) ==
  IF ~f.exists THEN <<>>
  ELSE [i \in 1..Len(read_csv(f)) |->
          [read_csv(f)[i] EXCEPT !.ts = to_utc(read_csv(f)[i].ts)]]

save_history(df) ==
  to_csv([i \in 1..Len(df) |-> [df[i] EXCEPT !.ts = strftime(to_utc(df[i].ts))]])

\* sort_values("timestamp"): kind="quicksort" is not stable, so rows with
\* equal timestamps come out in any order; NaT rows go last
\* (na_position="last") in their original order.  The result is the set of
\* index sequences the sort may return over the positions I of c.
RECURSIVE argsort(_, _)
argsort(c, I) ==
  IF I = {} THEN {<<>>}
  ELSE LET valid == {i \in I : c[i].ts # NaT}
       IN IF valid = {}
          THEN LET i == CHOOSE k \in I : \A j \in I : k <= j
               IN {<<i>> \o s : s \in argsort(c, I \ {i})}
          ELSE LET least == {i \in valid : \A j \in valid : c[i].ts <= c[j].ts}
               IN UNION {{<<i>> \o s : s \in argsort(c, I \ {i})} : i \in least}

sort_values(c) ==
  {[k \in 1..Len(c) |-> c[p[k]]] : p \in argsort(c, 1..Len(c))}

\* (mutant) the minute floor forgotten: duplicates are told by the exact instant
DedupKeyExact(r) == <<r.id, r.ts>>

\* the dedup key of upsert_snapshot: subset=["artist_id", "ts_min"]
DedupKey(r) == <<r.id, floorT(r.ts)>>

\* (mutant) keep="first"
KeepFirst(c) == {i \in 1..Len(c) : \A j \in 1..(i-1) : DedupKey(c[j]) # DedupKey(c[i])}

\* drop_duplicates(subset=..., keep="last"): a row stays iff no later row has
\* its key (missing values compare equal)
KeepLast(c) == {i \in 1..Len(c) : \A j \in (i+1)..Len(c) : DedupKey(c[j]) # DedupKey(c[i])}

RECURSIVE Select(_, _, _)
Select(c, keep, i) ==
  IF i > Len(c) THEN <<>>
  ELSE (IF i \in keep THEN <<c[i]>> ELSE <<>>) \o Select(c, keep, i + 1)

drop_duplicates(c) == Select(c, KeepLast(c), 1)

\* upsert_snapshot(p, row): the contents p may hold afterwards
upsert_snapshot(f, row) ==
  LET hist == load_history(f)
      c    == [i \in 1..(Len(hist) + 1) |->
                 IF i <= Len(hist) THEN hist[i]
                 ELSE [row EXCEPT !.ts = to_utc(row.ts)]]
  IN {save_history(drop_duplicates(s)) : s \in sort_values(c)}

----------------------------------------------------------------------------
(* Comparisons of a timestamp column with an instant: NaT compares False   *)

Lt(t, c) == t # NaT /\ t < c
Ge(t, c) == t # NaT /\ t >= c
Le(t, c) == t # NaT /\ t <= c

\* df[mask]: the rows of df at the positions of keep, in order
Filter(df, keep) == Select(df, keep, 1)

\* pd.to_datetime(df["timestamp"], errors="coerce", utc=True)
to_datetime(df) == [i \in 1..Len(df) |-> [df[i] EXCEPT !.ts = to_utc(df[i].ts)]]

\* df.to_csv(path, mode="a", header=header, index=False)
to_csv_append(f, rows, header) ==
  [exists |-> TRUE,
   lines  |-> f.lines \o (IF header THEN <<Header>> ELSE <<>>) \o rows]

----------------------------------------------------------------------------
(* spotify_stats_extended.py: append and retention                         *)

\* now_utc_str(): "%Y-%m-%d %H:%M:%S"
now_utc_str(t) == (t \div TicksPerSec) * TicksPerSec

\* append_csv(df, path)
append_csv(f, df) == to_csv_append(f, df, ~f.exists)

\* (mutant) the row at the cutoff is not kept
recent_strict(df, cutoff) == Filter(df, {i \in 1..Len(df) : df[i].ts # NaT /\ df[i].ts > cutoff})

\* recent = df[df["timestamp"] >= cutoff]
recent(df, cutoff) == Filter(df, {i \in 1..Len(df) : Ge(df[i].ts, cutoff)})

\* old = df[df["timestamp"] < cutoff]
old(df, cutoff) == Filter(df, {i \in 1..Len(df) : Lt(df[i].ts, cutoff)})

\* roll_and_archive() at instant t: the files afterwards
roll_and_archive(fs, t) ==
  IF ~fs[STATS_PATH].exists THEN fs
  ELSE LET df == to_datetime(read_csv(fs[STATS_PATH]))
           cutoff == t - ROLLING_DAYS * DayTicks
       IN IF df = <<>> THEN fs
          ELSE [fs EXCEPT
                  ![ARCHIVE_PATH] =
                     IF old(df, cutoff) # <<>>
                     THEN to_csv_append(@, old(df, cutoff), ~@.exists)
                     ELSE @,
                  ![STATS_PATH] = to_csv(recent(df, cutoff))]

----------------------------------------------------------------------------
(* youtube_stats_extended.py: append and retention                         *)

\* strftime("%Y%m%d"): the date an instant falls on
stamp(t) == t \div DayTicks

\* the partition archive/<stem>_<stamp>.csv; a partition never written is
\* absent
Part(ps, d) == IF d \in DOMAIN ps THEN ps[d] ELSE Absent

\* df.drop_duplicates(): exact duplicate rows, the first of each kept
drop_exact_duplicates(df) ==
  Filter(df, {i \in 1..Len(df) : \A j \in 1..(i-1) : df[j] # df[i]})

\* append_df(path, df)
append_df(f, df) ==
  IF df = <<>> THEN f
  ELSE to_csv_append(f, drop_exact_duplicates(df), ~f.exists)

\* df.dropna(subset=[timestamp_col])
dropna(df) == Filter(df, {i \in 1..Len(df) : df[i].ts # NaT})

\* (mutant) the partition is opened with mode "w" whether it exists or not
write_archive_clobber(arch, rows) ==
  [exists |-> TRUE, lines |-> (IF arch.exists THEN <<>> ELSE <<Header>>) \o rows]

\* old.to_csv(arch, index=False, header=not arch.exists(), mode=mode) with
\* mode = "a" if arch.exists() else "w"
write_archive(arch, rows) ==
  IF arch.exists THEN to_csv_append(arch, rows, FALSE)
  ELSE to_csv(rows)

\* cap_and_archive(path, "timestamp") at instant t:
\* the file, the partitions and the returned counts afterwards
cap_and_archive(f, ps, t) ==
  IF ~f.exists THEN [file |-> f, parts |-> ps, kept |-> 0, archived |-> 0]
  ELSE LET raw == to_datetime(read_csv(f))
       IN IF raw = <<>> THEN [file |-> f, parts |-> ps, kept |-> 0, archived |-> 0]
          ELSE LET df == dropna(raw)
                   cutoff == t - RETENTION_DAYS * DayTicks
                   keep == Filter(df, {i \in 1..Len(df) : Ge(df[i].ts, cutoff)})
                   gone == Filter(df, {i \in 1..Len(df) : Lt(df[i].ts, cutoff)})
               IN [file  |-> to_csv(keep),
                   parts |-> IF gone # <<>>
                             THEN [d \in DOMAIN ps \cup {stamp(t)} |->
                                     IF d = stamp(t)
                                     THEN write_archive(Part(ps, d), gone)
                                     ELSE ps[d]]
                             ELSE ps,
                   kept |-> Len(keep),
                   archived |-> Len(gone)]

----------------------------------------------------------------------------
(* runs.log: a text file of lines.  A line is the sequence of the records  *)
(* written on it (one, unless a record was written onto a line that was    *)
(* not ended), an empty line is <<>>, and eol tells whether the text ends   *)
(* with a newline.                                                         *)

\* the line spotify_stats_extended.main() makes; the run is instantaneous
\* in the model, so its duration is 0
spotify_line(t, ok, written) ==
  [ts |-> now_utc_str(t), ok |-> ok, rows |-> written,
   artists |-> Cardinality({"A", "B"}), dur |-> 0]

\* the record log_run(status, rows_channels, rows_videos, dur_s) makes
youtube_line(t, status, rows_channels) ==
  [ts |-> now_utc_str(t), component |-> "youtube", status |-> status,
   rows_channels |-> rows_channels, rows_videos |-> 0, duration_s |-> 0]

\* the text ends with a newline
EndsWithNewline(f) == f.exists /\ f.lines # <<>> /\ f.eol

\* write_runs_log(line): RUNS_LOG.open("a"); f.write(line + "\n")
write_runs_log(f, rec) ==
  IF ~f.exists \/ f.lines = <<>> \/ f.eol
  THEN [exists |-> TRUE, lines |-> f.lines \o <<(<<rec>>)>>, eol |-> TRUE]
  ELSE [exists |-> TRUE,
        lines  |-> [f.lines EXCEPT ![Len(f.lines)] = @ \o <<rec>>],
        eol    |-> TRUE]

\* log_run: existing = RUNS_LOG.read_text() if it exists else "";
\* RUNS_LOG.write_text(existing + ("" if not existing else "\n") + json)
log_run(f, rec) ==
  IF ~f.exists \/ f.lines = <<>>
  THEN [exists |-> TRUE, lines |-> <<(<<rec>>)>>, eol |-> FALSE]
  ELSE [exists |-> TRUE,
        lines  |-> f.lines \o (IF f.eol THEN <<(<<>>)>> ELSE <<>>) \o <<(<<rec>>)>>,
        eol    |-> FALSE]

----------------------------------------------------------------------------
(* Windows and first/last aggregates                                       *)

\* arithmetic on metric cells: a missing operand gives a missing result
Sub(a, b) == IF a = NA \/ b = NA THEN NA ELSE a - b

\* a percent change: not-a-number, or the ratio num / den
NaN == [defined |-> FALSE, num |-> 0, den |-> 1]
Ratio(n, d) == [defined |-> TRUE, num |-> n, den |-> d]

\* df[df["artist_name"].isin(artists)]
isin(df, artists) == Filter(df, {i \in 1..Len(df) : df[i].name \in artists})

\* (mutant) the start of the window is exclusive
filter_window_open(df, hours, t) ==
  LET ok == dropna(to_datetime(df))
  IN Filter(ok, {i \in 1..Len(ok) : ok[i].ts > t - hours * HourTicks /\ Le(ok[i].ts, t)})

\* spotify_dashboard.filter_window(df, hours) at instant t
filter_window(df, hours, t) ==
  IF df = <<>> THEN df
  ELSE LET ok == dropna(to_datetime(df))
           start == t - hours * HourTicks
       IN Filter(ok, {i \in 1..Len(ok) : Ge(ok[i].ts, start) /\ Le(ok[i].ts, t)})

\* youtube_dashboard.filter_window(df, "timestamp", hours) at instant t
yt_filter_window(df, hours, t) ==
  IF df = <<>> THEN df
  ELSE LET start == t - hours * HourTicks
       IN Filter(df, {i \in 1..Len(df) : Ge(df[i].ts, start) /\ Le(df[i].ts, t)})

\* the groups of groupby("artist_name")
Groups(df) == {df[i].name : i \in 1..Len(df)}

Least(I) == CHOOSE i \in I : \A j \in I : i <= j
Greatest(I) == CHOOSE i \in I : \A j \in I : i >= j

\* GroupBy.first() / agg("first"): the first value of the group that is not
\* missing (missing when the group has none)
groupby_first(df, n) ==
  LET I == {i \in 1..Len(df) : df[i].name = n /\ df[i].val # NA}
  IN IF I = {} THEN NA ELSE df[Least(I)].val

\* GroupBy.last() / agg("last"): the last value of the group that is not
\* missing
groupby_last(df, n) ==
  LET I == {i \in 1..Len(df) : df[i].name = n /\ df[i].val # NA}
  IN IF I = {} THEN NA ELSE df[Greatest(I)].val

\* groupby("artist_name").head(1): the first row of the group
head1(df, n) == df[Least({i \in 1..Len(df) : df[i].name = n})].val

\* groupby("artist_name").tail(1): the last row of the group
tail1(df, n) == df[Greatest({i \in 1..Len(df) : df[i].name = n})].val

\* (mutant) a zero first value is divided by all the same
pct_change_unguarded(first, last) ==
  IF first = NA \/ last = NA THEN NaN ELSE Ratio(last - first, first)

\* youtube_dashboard.pct_change(first, last)
pct_change(first, last) ==
  IF first = 0 \/ first = NA THEN NaN
  ELSE IF last = NA THEN NaN
  ELSE Ratio(last - first, first)

AggRow(n, f, l, d, p) == [name |-> n, first |-> f, last |-> l, delta |-> d, pct |-> p]

\* spotify_dashboard.py, 7-day change: the aggregates the sort may lead to
seven_day_change(hist, artists, t) ==
  LET cut == t - CHANGE_DAYS * DayTicks
      sel == isin(hist, artists)
      seven == Filter(sel, {i \in 1..Len(sel) : Ge(to_utc(sel[i].ts), cut)})
  IN {{AggRow(n, groupby_first(s, n), groupby_last(s, n),
              Sub(groupby_last(s, n), groupby_first(s, n)), NaN) : n \in Groups(s)}
        : s \in sort_values(seven)}

\* youtube_dashboard.py, Growth by Channel: the aggregates of the window
growth_by_channel(wchan) ==
  {{AggRow(n, head1(s, n), tail1(s, n), Sub(tail1(s, n), head1(s, n)),
           pct_change(head1(s, n), tail1(s, n))) : n \in Groups(s)}
     : s \in sort_values(wchan)}

\* ALERT_THRESHOLD_PCT = 0.2 (percent), as the ratio 1 / 5
ThresholdNum == 1
ThresholdDen == 5
\* ALERT_PCT = 0.10 (percent), as the ratio 1 / 10
AlertPctNum == 1
AlertPctDen == 10

Abs(x) == IF x < 0 THEN -x ELSE x

\* (mutant) a change equal to the threshold does not alert
exceeds_strict(p, th) ==
  p.defined /\ Abs(p.num) * th[2] > th[1] * Abs(p.den)

\* abs(pct) >= threshold_pct for a percent change p = num / den and a
\* threshold th = <<n, d>> standing for n / d percent.  The quotient of two
\* integers below 2^53 is rounded the same way whenever the ratio is the
\* same, and followers counts lie far from the spacing of float64, so the
\* exact comparison decides as the float comparison does.
exceeds(p, th) ==
  p.defined /\ Abs(p.num) * th[2] >= th[1] * Abs(p.den)

\* pct = (end - start) / start * 100 of compute_window_alerts; no pct is
\* computed when start is missing or zero or end is missing
alert_pct(start, end) ==
  IF start = NA \/ start = 0 \/ end = NA THEN NaN
  ELSE Ratio((end - start) * 100, start)

\* compute_window_alerts(threshold_pct) at instant t: per artist of the
\* window the earliest and latest followers, the percent change, and whether
\* a message is made
compute_window_alerts(f, t, th) ==
  IF ~f.exists \/ read_csv(f) = <<>> THEN {{}}
  ELSE LET df == to_datetime(read_csv(f))
           cutoff == t - ALERT_WINDOW_HOURS * HourTicks
           w == Filter(df, {i \in 1..Len(df) : Ge(df[i].ts, cutoff)})
       IN {{[name  |-> n,
             first |-> groupby_first(s, n),
             last  |-> groupby_last(s, n),
             delta |-> Sub(groupby_last(s, n), groupby_first(s, n)),
             pct   |-> alert_pct(groupby_first(s, n), groupby_last(s, n)),
             alert |-> exceeds(alert_pct(groupby_first(s, n), groupby_last(s, n)), th)]
              : n \in Groups(s)}
             : s \in sort_values(w)}

\* pct_change(first, last) as a percent
percent(p) == IF p.defined THEN Ratio(p.num * 100, p.den) ELSE NaN

\* youtube_dashboard.py, Alerts (banner): per artist of the window the first
\* and last subs, pct_change, and whether the artist is in the banner:
\* ~isna(pct) & (abs(pct) >= ALERT_PCT / 100.0)
alerts_banner(wchan) ==
  {{[name  |-> n,
     first |-> head1(s, n),
     last  |-> tail1(s, n),
     delta |-> Sub(tail1(s, n), head1(s, n)),
     pct   |-> percent(pct_change(head1(s, n), tail1(s, n))),
     alert |-> exceeds(percent(pct_change(head1(s, n), tail1(s, n))),
                       <<AlertPctNum, AlertPctDen>>)] : n \in Groups(s)}
     : s \in sort_values(wchan)}

\* normalize_csv(p)
normalize_csv(f) ==
  IF ~f.exists THEN f
  ELSE to_csv([i \in 1..Len(read_csv(f)) |->
                 [read_csv(f)[i] EXCEPT !.ts = strftime(to_utc(read_csv(f)[i].ts))]])

----------------------------------------------------------------------------
(* Inputs                                                                  *)

Names == {"A", "B"}
\* artist_id of each artist name (search_artist_id)
ArtistId(n) == IF n = "A" THEN "a1" ELSE "b1"

\* persisted instants: second 0 and second 1 of minute 0, second 0 of minute 1
StoredTimes == {0, TicksPerSec, MinuteTicks}
\* in-memory instants: the same, and one strictly inside second 0
MemTimes == StoredTimes \cup {1}

\* rows a log may hold before the dashboard touches it: written by the
\* dashboard (artist_id set) or appended by the fetcher (no artist_id), with a
\* timestamp cell that parses or not
PriorRows ==
  {Row(e[1], e[2], t, 100) :
     e \in {<<"A", "a1">>, <<"A", NoId>>, <<"B", NoId>>}, t \in {0, TicksPerSec, NaT}}

\* fetch_snapshot(aid): the snapshot the dashboard upserts
Snapshots ==
  {Row(n, ArtistId(n), t, 150) : n \in Names, t \in MemTimes}

SeqsUpTo(S, n) == UNION {[1..k -> S] : k \in 0..n}

NoArg == Row("", NoId, NaT, NA)
NoOut == [hours |-> 0, sel |-> {}, input |-> <<>>, view |-> <<>>, agg |-> {},
          alerts |-> {}, status |-> "none"]

\* the instant the retention behaviours start at (the first second of a day)
\* and the cutoff of a roll at that instant
Now0 == (RETENTION_DAYS + 1) * DayTicks
Cut0 == Now0 - RETENTION_DAYS * DayTicks

\* rows of a log before a run: stamped at the cutoff second, the second after
\* it, or with a timestamp cell that does not parse
AgedRows ==
  {Row(n, NoId, t, 100) : n \in Names, t \in {Cut0, Cut0 + TicksPerSec, NaT}}

\* the delay between two runs: a second (same day) or a day
Advances == {TicksPerSec, DayTicks}

----------------------------------------------------------------------------
(* The dashboard's store: spotify_stats.csv under "Reload data"            *)

InitUpsert ==
  /\ \E rows \in SeqsUpTo(PriorRows, MaxPrior) :
        files = [p \in Paths |->
                   IF p = STATS_PATH /\ rows # <<>> THEN to_csv(rows) ELSE Absent]
  /\ parts = <<>>
  /\ now = 0
  /\ op = "init"
  /\ arg = NoArg
  /\ before = [files |-> files, parts |-> parts]
  /\ out = NoOut
  /\ steps = 0
  /\ writer = Idle

\* one pass of the reload loop: upsert_snapshot(CSV_PATH, fetch_snapshot(aid))
UpsertSnapshot ==
  /\ steps < MaxOps
  /\ steps' = steps + 1
  /\ \E row \in Snapshots :
       /\ \E f \in upsert_snapshot(files[STATS_PATH], row) :
            files' = [files EXCEPT ![STATS_PATH] = f]
       /\ arg' = row
  /\ op' = "upsert"
  /\ before' = [files |-> files, parts |-> parts]
  /\ UNCHANGED <<parts, now, out, writer>>

NextUpsert == UpsertSnapshot

SpecUpsert == InitUpsert /\ [][NextUpsert]_vars

----------------------------------------------------------------------------
(* Ingestion runs: append, then retention                                  *)

InitRoll ==
  /\ \E rows \in SeqsUpTo(AgedRows, MaxPrior), p \in {STATS_PATH, CHAN_CSV} :
        files = [q \in Paths |-> IF q = p /\ rows # <<>> THEN to_csv(rows) ELSE Absent]
  /\ parts = <<>>
  /\ now = Now0
  /\ op = "init"
  /\ arg = NoArg
  /\ before = [files |-> files, parts |-> parts]
  /\ out = NoOut
  /\ steps = 0
  /\ writer = Idle

\* spotify_stats_extended.main() when every fetch and write succeeds:
\* fetch_once, append_csv, roll_and_archive, write_runs_log
SpotifyRun ==
  /\ steps < MaxRuns
  /\ steps' = steps + 1
  /\ \E dt \in Advances : now' = now + dt
  /\ LET stats_df == <<Row("A", NoId, now_utc_str(now'), 100),
                       Row("B", NoId, now_utc_str(now'), 100)>>
         appended == [files EXCEPT ![STATS_PATH] = append_csv(@, stats_df)]
     IN /\ before' = [files |-> appended, parts |-> parts]
        /\ files' = [roll_and_archive(appended, now') EXCEPT
                       ![RUNS_LOG] = write_runs_log(@, spotify_line(now', 1, Len(stats_df)))]
  /\ op' = "roll_and_archive"
  /\ UNCHANGED <<parts, arg, out, writer>>

\* youtube_stats_extended.main(): the channel rows found (none when no
\* channel resolves), append_df, cap_and_archive, log_run
YoutubeRun ==
  /\ steps < MaxRuns
  /\ steps' = steps + 1
  /\ \E dt \in Advances : now' = now + dt
  /\ \E channel_rows \in {<<>>, <<Row("A", "chA", now_utc_str(now'), 100)>>} :
       LET appended == append_df(files[CHAN_CSV], channel_rows)
           r == cap_and_archive(appended, parts, now')
       IN /\ before' = [files |-> [files EXCEPT ![CHAN_CSV] = appended], parts |-> parts]
          /\ files' = [files EXCEPT
                         ![CHAN_CSV] = r.file,
                         ![RUNS_LOG] = log_run(@, youtube_line(now',
                                          IF channel_rows = <<>> THEN "no-op" ELSE "ok",
                                          Len(channel_rows)))]
          /\ parts' = r.parts
          /\ out' = [kept |-> r.kept, archived |-> r.archived]
  /\ op' = "cap_and_archive"
  /\ UNCHANGED <<arg, writer>>

NextRoll == SpotifyRun \/ YoutubeRun

SpecRoll == InitRoll /\ [][NextRoll]_vars

----------------------------------------------------------------------------
(* Ingestion runs in which a write fails                                   *)

\* the proper prefixes of the lines a write was to put down
Prefixes(lines) == {SubSeq(lines, 1, k) : k \in 0..(Len(lines) - 1)}

\* to_csv(p, index=False) raising OSError: the file could not be opened and
\* is as it was, or it was opened (truncated) and the write stopped part-way
failed_to_csv(f, rows) ==
  {f} \cup {[exists |-> TRUE, lines |-> l] : l \in Prefixes(to_csv(rows).lines)}

\* to_csv(p, mode="a", header=header) raising OSError: the file is as it was,
\* or part of the lines were appended
failed_to_csv_append(f, rows, header) ==
  {f} \cup {[exists |-> TRUE, lines |-> f.lines \o l] :
              l \in Prefixes((IF header THEN <<Header>> ELSE <<>>) \o rows)}

\* the writes of a run, in the order the run makes them
WritePoints == {"append", "archive", "overwrite"}

\* spotify_stats_extended.main() at instant t when the write at point fails:
\* the files the run may leave.  The exception ends the try block, so the
\* writes after the failing one are not made.
spotify_run_failing(fs, t, stats_df, point) ==
  LET appended == [fs EXCEPT ![STATS_PATH] = append_csv(@, stats_df)]
      df == to_datetime(read_csv(appended[STATS_PATH]))
      cutoff == t - ROLLING_DAYS * DayTicks
      archived == [appended EXCEPT ![ARCHIVE_PATH] =
                     to_csv_append(@, old(df, cutoff), ~@.exists)]
  IN IF point = "append"
     THEN {[fs EXCEPT ![STATS_PATH] = f] :
             f \in failed_to_csv_append(fs[STATS_PATH], stats_df, ~fs[STATS_PATH].exists)}
     ELSE IF point = "archive"
     THEN IF old(df, cutoff) = <<>> THEN {}
          ELSE {[appended EXCEPT ![ARCHIVE_PATH] = f] :
                  f \in failed_to_csv_append(appended[ARCHIVE_PATH], old(df, cutoff),
                                             ~appended[ARCHIVE_PATH].exists)}
     ELSE {[(IF old(df, cutoff) = <<>> THEN appended ELSE archived)
              EXCEPT ![STATS_PATH] = f] :
             f \in failed_to_csv(appended[STATS_PATH], recent(df, cutoff))}

\* youtube_stats_extended.main() at instant t when the write at point fails:
\* the channel log and the archive partitions the run may leave
youtube_run_failing(f, ps, t, channel_rows, point) ==
  LET appended == append_df(f, channel_rows)
      df == dropna(to_datetime(read_csv(appended)))
      cutoff == t - RETENTION_DAYS * DayTicks
      keep == Filter(df, {i \in 1..Len(df) : Ge(df[i].ts, cutoff)})
      gone == Filter(df, {i \in 1..Len(df) : Lt(df[i].ts, cutoff)})
      d == stamp(t)
      with(arch) == [e \in DOMAIN ps \cup {d} |-> IF e = d THEN arch ELSE ps[e]]
  IN IF point = "append"
     THEN IF channel_rows = <<>> THEN {}
          ELSE {[file |-> g, parts |-> ps] :
                  g \in failed_to_csv_append(f, drop_exact_duplicates(channel_rows),
                                             ~f.exists)}
     ELSE IF ~appended.exists \/ read_csv(appended) = <<>> THEN {}
     ELSE IF point = "archive"
     THEN IF gone = <<>> THEN {}
          ELSE {[file |-> appended, parts |-> IF arch = Absent THEN ps ELSE with(arch)] :
                  arch \in IF Part(ps, d).exists
                           THEN failed_to_csv_append(Part(ps, d), gone, FALSE)
                           ELSE failed_to_csv(Part(ps, d), gone)}
     ELSE {[file |-> g,
            parts |-> IF gone = <<>> THEN ps ELSE with(write_archive(Part(ps, d), gone))] :
             g \in failed_to_csv(appended, keep)}

\* spotify_stats_extended.main() with a failing write: the exception is
\* caught, the run is logged as failed and ends
SpotifyRunFails ==
  /\ steps < MaxRuns
  /\ steps' = steps + 1
  /\ \E dt \in Advances : now' = now + dt
  /\ \E point \in WritePoints :
       \E fs \in spotify_run_failing(files, now',
                    <<Row("A", NoId, now_utc_str(now'), 100),
                      Row("B", NoId, now_utc_str(now'), 100)>>, point) :
         /\ files' = [fs EXCEPT ![RUNS_LOG] =
                         write_runs_log(@, spotify_line(now', 0,
                                           IF point = "append" THEN 0 ELSE 2))]
         /\ out' = [status |-> "failed", point |-> point]
  /\ before' = [files |-> files, parts |-> parts]
  /\ op' = "spotify_run_failed"
  /\ UNCHANGED <<parts, arg, writer>>

\* youtube_stats_extended.main() with a failing write: the exception leaves
\* main before log_run
YoutubeRunFails ==
  /\ steps < MaxRuns
  /\ steps' = steps + 1
  /\ \E dt \in Advances : now' = now + dt
  /\ \E point \in WritePoints,
        channel_rows \in {<<>>, <<Row("A", "chA", now_utc_str(now'), 100)>>} :
       \E r \in youtube_run_failing(files[CHAN_CSV], parts, now', channel_rows, point) :
         /\ files' = [files EXCEPT ![CHAN_CSV] = r.file]
         /\ parts' = r.parts
         /\ out' = [status |-> "failed", point |-> point]
  /\ before' = [files |-> files, parts |-> parts]
  /\ op' = "youtube_run_failed"
  /\ UNCHANGED <<arg, writer>>

NextFail == SpotifyRun \/ YoutubeRun \/ SpotifyRunFails \/ YoutubeRunFails

SpecFail == InitRoll /\ [][NextFail]_vars

----------------------------------------------------------------------------
(* Ingestion runs in which a fetch fails, and the YouTube run in full      *)

\* what the API does for an artist of the YouTube run: "ok" (the channel is
\* found if it has to be searched, and its statistics come back), "none" (the
\* first call returns no items), "error" (the first call raises: retries
\* exhausted or an HTTP error), "found_error" (the search finds the channel,
\* then the statistics call raises)
Outcomes == {"ok", "none", "error", "found_error"}

\* the channel_id cell of a row of the channel map, as main() uses it:
\* str(row.get("channel_id") or "").strip()
ch_id_of(r) == IF r.id = " " THEN "" ELSE r.id

\* mapping["artist_name"].unique().tolist()
RECURSIVE unique(_, _)
unique(mapping, i) ==
  IF i > Len(mapping) THEN <<>>
  ELSE (IF \E j \in 1..(i - 1) : mapping[j].name = mapping[i].name
        THEN <<>> ELSE <<mapping[i].name>>) \o unique(mapping, i + 1)

\* mapping[mapping["artist_name"] == artist].iloc[0]
first_row(mapping, artist) ==
  mapping[Least({i \in 1..Len(mapping) : mapping[i].name = artist})]

\* mapping.loc[mapping["artist_name"] == artist, "channel_id"] = ch_id
set_channel_id(mapping, artist, ch) ==
  [i \in 1..Len(mapping) |->
     IF mapping[i].name = artist THEN [mapping[i] EXCEPT !.id = ch] ELSE mapping[i]]

\* the loop of youtube_stats_extended.main() over artists[i..]: the mapping
\* in memory, the channel map file, the rows gathered, and whether a call
\* raised.  save_channel_map is called as soon as a channel is found.
RECURSIVE yt_loop(_, _, _, _, _, _, _)
yt_loop(artists, i, mapping, mapfile, rows, oc, t) ==
  IF i > Len(artists)
  THEN [mapping |-> mapping, mapfile |-> mapfile, rows |-> rows, raised |-> FALSE]
  ELSE LET artist == artists[i]
           known == ch_id_of(first_row(mapping, artist))
           found == "ch" \o artist
       IN IF known = ""
          THEN IF oc[artist] = "error"
               THEN [mapping |-> mapping, mapfile |-> mapfile, rows |-> rows,
                     raised |-> TRUE]
               ELSE IF oc[artist] = "none"
               THEN yt_loop(artists, i + 1, mapping, mapfile, rows, oc, t)
               ELSE LET m2 == set_channel_id(mapping, artist, found)
                    IN IF oc[artist] = "found_error"
                       THEN [mapping |-> m2, mapfile |-> to_csv(m2), rows |-> rows,
                             raised |-> TRUE]
                       ELSE yt_loop(artists, i + 1, m2, to_csv(m2),
                                    rows \o <<Row(artist, found, t, 100)>>, oc, t)
          ELSE IF oc[artist] \in {"error", "found_error"}
               THEN [mapping |-> mapping, mapfile |-> mapfile, rows |-> rows,
                     raised |-> TRUE]
               ELSE IF oc[artist] = "none"
               THEN yt_loop(artists, i + 1, mapping, mapfile, rows, oc, t)
               ELSE yt_loop(artists, i + 1, mapping, mapfile,
                            rows \o <<Row(artist, known, t, 100)>>, oc, t)

\* the channel maps a run may find: none, or a row per artist with the
\* channel id known or blank
ChannelMaps ==
  {<<>>} \cup {<<Row("A", c, NaT, NA)>> : c \in {"chA", " "}}
         \cup {<<Row("A", c, NaT, NA), Row("B", d, NaT, NA)>> :
                 c \in {"chA", " "}, d \in {"chB", " "}}

InitRun ==
  /\ \E m \in ChannelMaps :
        files = [q \in Paths |-> IF q = MAP_PATH /\ m # <<>> THEN to_csv(m) ELSE Absent]
  /\ parts = <<>>
  /\ now = Now0
  /\ op = "init"
  /\ arg = NoArg
  /\ before = [files |-> files, parts |-> parts]
  /\ out = NoOut
  /\ steps = 0
  /\ writer = Idle

\* spotify_stats_extended.main() when sp.artist raises for some artist:
\* fetch_once raises, nothing is appended, the run is logged as failed
SpotifyFetchFails ==
  /\ steps < MaxRuns
  /\ steps' = steps + 1
  /\ \E dt \in Advances : now' = now + dt
  /\ \E oc \in [Names -> {"ok", "error"}] :
       /\ \E n \in Names : oc[n] = "error"
       /\ out' = [status |-> "failed", outcomes |-> oc, dry_run |-> FALSE, rows |-> <<>>]
  /\ files' = [files EXCEPT ![RUNS_LOG] = write_runs_log(@, spotify_line(now', 0, 0))]
  /\ before' = [files |-> files, parts |-> parts]
  /\ op' = "spotify_main"
  /\ UNCHANGED <<parts, arg, writer>>

\* youtube_stats_extended.main(dry_run)
YoutubeMain ==
  /\ steps < MaxRuns
  /\ steps' = steps + 1
  /\ now' = now + TicksPerSec
  /\ before' = [files |-> files, parts |-> parts]
  /\ op' = "youtube_main"
  /\ \E dry_run \in BOOLEAN, oc \in [Names -> Outcomes] :
       LET mapping == read_csv(files[MAP_PATH])
           l == yt_loop(unique(mapping, 1), 1, mapping, files[MAP_PATH], <<>>, oc,
                        now_utc_str(now'))
           appended == append_df(files[CHAN_CSV], l.rows)
           r == cap_and_archive(appended, parts, now')
           line == youtube_line(now', IF Len(l.rows) > 0 THEN "ok" ELSE "no-op",
                                Len(l.rows))
       IN IF mapping = <<>>
          THEN /\ out' = [status |-> "raised", outcomes |-> oc, dry_run |-> dry_run,
                          rows |-> <<>>]
               /\ UNCHANGED <<files, parts>>
          ELSE IF l.raised
          THEN /\ out' = [status |-> "raised", outcomes |-> oc, dry_run |-> dry_run,
                          rows |-> l.rows]
               /\ files' = [files EXCEPT ![MAP_PATH] = l.mapfile]
               /\ UNCHANGED parts
          ELSE IF dry_run
          THEN /\ out' = [status |-> "done", outcomes |-> oc, dry_run |-> dry_run,
                          rows |-> l.rows]
               /\ files' = [files EXCEPT ![MAP_PATH] = l.mapfile,
                                         ![RUNS_LOG] = log_run(@, line)]
               /\ UNCHANGED parts
          ELSE /\ out' = [status |-> "done", outcomes |-> oc, dry_run |-> dry_run,
                          rows |-> l.rows]
               /\ files' = [files EXCEPT ![MAP_PATH] = l.mapfile,
                                         ![CHAN_CSV] = r.file,
                                         ![RUNS_LOG] = log_run(@, line)]
               /\ parts' = r.parts
  /\ UNCHANGED <<arg, writer>>

NextRun == SpotifyRun \/ SpotifyFetchFails \/ YoutubeMain

SpecRun == InitRun /\ [][NextRun]_vars

----------------------------------------------------------------------------
(* Readers: the dashboards' render pass and the fetcher's alert pass       *)

\* the instant the rows of the read behaviours are stamped around
W0 == DayTicks

\* the slider "Time window (hours)": a day and the maximum, a week
HoursChoices == {ALERT_WINDOW_HOURS, CHANGE_DAYS * ALERT_WINDOW_HOURS}

\* rows of a log that is read: stamped a second before W0, at W0, a day
\* after W0, a second after that, or with a timestamp cell that does not
\* parse; the metric of "A" missing, zero or positive, that of "B" positive
ViewTimes ==
  {W0 - TicksPerSec, W0, W0 + ALERT_WINDOW_HOURS * HourTicks,
   W0 + ALERT_WINDOW_HOURS * HourTicks + TicksPerSec, NaT}
ViewRows ==
  {Row("A", NoId, t, v) : t \in ViewTimes, v \in {NA, 0, 100}}
    \cup {Row("B", NoId, t, 100) : t \in ViewTimes}

InitView ==
  /\ \E rows \in SeqsUpTo(ViewRows, MaxPrior) :
        files = [q \in Paths |->
                   IF q \in {STATS_PATH, CHAN_CSV} /\ rows # <<>> THEN to_csv(rows) ELSE Absent]
  /\ parts = <<>>
  /\ now \in {W0 + ALERT_WINDOW_HOURS * HourTicks, W0 + CHANGE_DAYS * DayTicks}
  /\ op = "init"
  /\ arg = NoArg
  /\ before = [files |-> files, parts |-> parts]
  /\ out = NoOut
  /\ steps = 0
  /\ writer = Idle

\* spotify_dashboard.py, one render: normalize_csv, load_history, the
\* artist selection, filter_window, st.stop() on an empty view, else the
\* 7-day change
SpotifyRender ==
  /\ steps < 1
  /\ steps' = steps + 1
  /\ files' = [files EXCEPT ![STATS_PATH] = normalize_csv(@)]
  /\ \E hours \in HoursChoices, artists \in {{"A"}, Names} :
       LET hist == load_history(files'[STATS_PATH])
           view == filter_window(isin(hist, artists), hours, now)
       IN IF view = <<>>
          THEN out' = [hours |-> hours, sel |-> artists, input |-> isin(hist, artists),
                       view |-> view, agg |-> {}, alerts |-> {}, status |-> "stopped"]
          ELSE \E agg \in seven_day_change(hist, artists, now) :
                 out' = [hours |-> hours, sel |-> artists, input |-> isin(hist, artists),
                         view |-> view, agg |-> agg, alerts |-> {},
                         status |-> "rendered"]
  /\ op' = "spotify_dashboard"
  /\ before' = [files |-> files, parts |-> parts]
  /\ UNCHANGED <<parts, now, arg, writer>>

\* youtube_dashboard.py, one render: load_channels (a timestamp cell that is
\* text and does not parse leaves the column unparsed and _ensure_utc raises;
\* an empty cell is NaT), st.stop() on no data, filter_window, the alerts
\* banner, Growth by Channel
YoutubeRender ==
  /\ steps < 1
  /\ steps' = steps + 1
  /\ LET channels == read_csv(files[CHAN_CSV])
     IN \/ /\ \E i \in 1..Len(channels) : channels[i].ts < 0
           /\ out' = [NoOut EXCEPT !.status = "raised"]
        \/ /\ channels = <<>>
           /\ out' = [NoOut EXCEPT !.status = "stopped"]
        \/ /\ channels # <<>>
           /\ \A i \in 1..Len(channels) : channels[i].ts # Garbage
           /\ \E win \in HoursChoices, sel \in {{"A"}, Names} :
                LET wchan == yt_filter_window(isin(to_datetime(channels), sel), win, now)
                IN \E agg \in growth_by_channel(wchan), alerts \in alerts_banner(wchan) :
                     out' = [hours |-> win, sel |-> sel,
                             input |-> isin(to_datetime(channels), sel),
                             view |-> wchan, agg |-> agg, alerts |-> alerts,
                             status |-> "rendered"]
  /\ op' = "youtube_dashboard"
  /\ before' = [files |-> files, parts |-> parts]
  /\ UNCHANGED <<files, parts, now, arg, writer>>

\* spotify_stats_extended.py: the alert pass of a run
WindowAlerts ==
  /\ steps < 1
  /\ steps' = steps + 1
  /\ \E agg \in compute_window_alerts(files[STATS_PATH], now,
                                       <<ThresholdNum, ThresholdDen>>) :
       out' = [hours |-> ALERT_WINDOW_HOURS, sel |-> Names,
               input |-> read_csv(files[STATS_PATH]),
               view |-> <<>>, agg |-> agg, alerts |-> agg,
               th |-> <<ThresholdNum, ThresholdDen>>, status |-> "alerts"]
  /\ op' = "compute_window_alerts"
  /\ before' = [files |-> files, parts |-> parts]
  /\ UNCHANGED <<files, parts, now, arg, writer>>

NextView == SpotifyRender \/ YoutubeRender \/ WindowAlerts

SpecView == InitView /\ [][NextView]_vars

----------------------------------------------------------------------------
(* Renders over logs whose timestamp cells parse, are empty, or are text   *)

RenderRows ==
  {Row(n, NoId, t, 100) : n \in Names, t \in {W0, NaT, Garbage}}

InitRender ==
  /\ \E rows \in SeqsUpTo(RenderRows, MaxPrior) :
        files = [q \in Paths |->
                   IF q \in {STATS_PATH, CHAN_CSV} /\ rows # <<>> THEN to_csv(rows) ELSE Absent]
  /\ parts = <<>>
  /\ now = W0 + ALERT_WINDOW_HOURS * HourTicks
  /\ op = "init"
  /\ arg = NoArg
  /\ before = [files |-> files, parts |-> parts]
  /\ out = NoOut
  /\ steps = 0
  /\ writer = Idle

NextRender == SpotifyRender \/ YoutubeRender

SpecRender == InitRender /\ [][NextRender]_vars

----------------------------------------------------------------------------
(* youtube_stats_extended.yt_get: GET with retry and backoff               *)

\* range(5)
MaxAttempts == 5
\* requests.get raised (timeout, connection error) instead of answering
ConnError == 0
HttpOk == 200
\* the statuses on which the loop sleeps and continues
Retryable == {429, 500, 502, 503, 504}
\* the answers a request can get
Statuses == Retryable \cup {ConnError, HttpOk, 404, 501}

\* a deviation used to test the checks: waits that grow by one second
backoff_linear(attempt) == attempt + 1

\* time.sleep(2 ** attempt)
backoff(attempt) == 2 ^ attempt

\* r.raise_for_status(): TRUE when it raises
raise_for_status(status) == status >= 400 /\ status < 600

\* one pass of the loop body with `attempt`, then the rest of the loop;
\* responses[k] is the answer the k-th request gets
RECURSIVE yt_attempts(_, _, _)
yt_attempts(responses, attempt, sleeps) ==
  IF attempt = MaxAttempts
  THEN \* after the loop r is the last response
       LET r == responses[MaxAttempts]
       IN [requests |-> MaxAttempts, sleeps |-> sleeps,
           status |-> IF raise_for_status(r) THEN "raised" ELSE "returned",
           body |-> IF raise_for_status(r) THEN 0 ELSE MaxAttempts]
  ELSE LET r == responses[attempt + 1]
       IN IF r = ConnError
          THEN [requests |-> attempt + 1, sleeps |-> sleeps, status |-> "raised", body |-> 0]
          ELSE IF r \in Retryable
          THEN yt_attempts(responses, attempt + 1, Append(sleeps, backoff(attempt)))
          ELSE IF raise_for_status(r)
          THEN [requests |-> attempt + 1, sleeps |-> sleeps, status |-> "raised", body |-> 0]
          ELSE [requests |-> attempt + 1, sleeps |-> sleeps, status |-> "returned",
                body |-> attempt + 1]

yt_get(api_key, responses) ==
  IF ~api_key
  THEN [requests |-> 0, sleeps |-> <<>>, status |-> "raised", body |-> 0]
  ELSE yt_attempts(responses, 0, <<>>)

RECURSIVE Sum(_)
Sum(q) == IF q = <<>> THEN 0 ELSE Head(q) + Sum(Tail(q))

InitRetry ==
  /\ files = [q \in Paths |-> Absent]
  /\ parts = <<>>
  /\ now = Now0
  /\ op = "init"
  /\ \E api_key \in BOOLEAN, responses \in [1..MaxAttempts -> Statuses] :
        arg = [api_key |-> api_key, responses |-> responses]
  /\ before = [files |-> files, parts |-> parts]
  /\ out = NoOut
  /\ steps = 0
  /\ writer = Idle

YtGet ==
  /\ steps < 1
  /\ op' = "yt_get"
  /\ out' = yt_get(arg.api_key, arg.responses)
  /\ now' = now + TicksPerSec * Sum(out'.sleeps)
  /\ steps' = steps + 1
  /\ UNCHANGED <<files, parts, arg, before, writer>>

NextRetry == YtGet

SpecRetry == InitRetry /\ [][NextRetry]_vars

----------------------------------------------------------------------------
(* Alert evaluation over a log of hourly runs                              *)

\* the instant of the evaluation, and the instant of the i-th recorded run:
\* every run lies within the last 24 hours
AlertNow == W0 + ALERT_WINDOW_HOURS * HourTicks
SnapTime(i) == W0 + i * HourTicks

\* the metric of "A" in a run: missing, zero, or a count; that of "B"
MetricsA == {NA, 0, 100, 101, 150}
MetricsB == {100, 150}

\* the log k runs leave: each run appends a row of "A" and a row of "B"
\* stamped with the run's instant
RunsLog(va, vb) ==
  [j \in 1..(2 * Len(va)) |->
     IF j % 2 = 1 THEN Row("A", NoId, SnapTime((j + 1) \div 2), va[(j + 1) \div 2])
     ELSE Row("B", NoId, SnapTime(j \div 2), vb[j \div 2])]

\* threshold_pct, in percent: 0.2 (ALERT_THRESHOLD_PCT), 1, 20 and 50
Thresholds == {<<ThresholdNum, ThresholdDen>>, <<1, 1>>, <<20, 1>>, <<50, 1>>}

InitAlert ==
  /\ \E k \in 0..MaxSnaps :
       \E va \in [1..k -> MetricsA], vb \in [1..k -> MetricsB] :
         files = [q \in Paths |->
                    IF q \in {STATS_PATH, CHAN_CSV} /\ k > 0
                    THEN to_csv(RunsLog(va, vb)) ELSE Absent]
  /\ parts = <<>>
  /\ now = AlertNow
  /\ op = "init"
  /\ arg = NoArg
  /\ before = [files |-> files, parts |-> parts]
  /\ out = NoOut
  /\ steps = 0
  /\ writer = Idle

\* compute_window_alerts(threshold_pct)
AlertPass ==
  /\ steps < 1
  /\ steps' = steps + 1
  /\ \E th \in Thresholds :
       \E agg \in compute_window_alerts(files[STATS_PATH], now, th) :
         out' = [hours |-> ALERT_WINDOW_HOURS, sel |-> Names,
                 input |-> read_csv(files[STATS_PATH]),
                 view |-> <<>>, agg |-> agg, alerts |-> agg,
                 th |-> th, status |-> "alerts"]
  /\ op' = "compute_window_alerts"
  /\ before' = [files |-> files, parts |-> parts]
  /\ UNCHANGED <<files, parts, now, arg, writer>>

NextAlert == AlertPass \/ YoutubeRender

SpecAlert == InitAlert /\ [][NextAlert]_vars

----------------------------------------------------------------------------
(* A rewrite of spotify_stats.csv in place, and a dashboard that loads it  *)

\* open(p, "w"): the file exists and holds nothing
truncate(f) == [exists |-> TRUE, lines |-> <<>>]

\* what a rewrite has computed from the file it read, before it opens it
Loaded(c) == [pc |-> "loaded", path |-> STATS_PATH, content |-> c, written |-> 0]

\* upsert_snapshot, up to save_history: load_history, concat, sort, dedup
UpsertLoad ==
  /\ writer.pc = "idle"
  /\ \E row \in Snapshots :
       /\ \E c \in upsert_snapshot(files[STATS_PATH], row) : writer' = Loaded(c)
       /\ arg' = row
  /\ op' = "upsert"
  /\ before' = [files |-> files, parts |-> parts]
  /\ UNCHANGED <<files, parts, now, out, steps>>

\* normalize_csv, up to df.to_csv: read_csv and the reformatted timestamps
NormalizeLoad ==
  /\ writer.pc = "idle"
  /\ files[STATS_PATH].exists
  /\ writer' = Loaded(normalize_csv(files[STATS_PATH]))
  /\ op' = "normalize_csv"
  /\ before' = [files |-> files, parts |-> parts]
  /\ UNCHANGED <<files, parts, now, arg, out, steps>>

\* roll_and_archive, up to recent.to_csv (no row is older than the cutoff
\* here, so nothing is appended to the archive)
RollLoad ==
  /\ writer.pc = "idle"
  /\ files[STATS_PATH].exists
  /\ read_csv(files[STATS_PATH]) # <<>>
  /\ writer' = Loaded(roll_and_archive(files, now)[STATS_PATH])
  /\ op' = "roll_and_archive"
  /\ before' = [files |-> files, parts |-> parts]
  /\ UNCHANGED <<files, parts, now, arg, out, steps>>

\* DataFrame.to_csv(p): the file is opened for writing
RewriteOpen ==
  /\ writer.pc = "loaded"
  /\ files' = [files EXCEPT ![writer.path] = truncate(@)]
  /\ writer' = [writer EXCEPT !.pc = "writing"]
  /\ UNCHANGED <<parts, now, op, arg, before, out, steps>>

\* DataFrame.to_csv(p): some of the lines not yet written reach the file, at
\* the position of the handle opened with mode "w" (the end of the file when
\* nobody else has written to it; otherwise over what was put there)
RewriteFlush ==
  /\ writer.pc = "writing"
  /\ \E k \in 1..(Len(writer.content.lines) - writer.written) :
       /\ files' = [files EXCEPT ![writer.path].lines =
                       SubSeq(@, 1, writer.written)
                       \o SubSeq(writer.content.lines, writer.written + 1,
                                 writer.written + k)
                       \o SubSeq(@, writer.written + k + 1, Len(@))]
       /\ writer' = [writer EXCEPT !.written = @ + k]
  /\ UNCHANGED <<parts, now, op, arg, before, out, steps>>

\* DataFrame.to_csv(p): every line is written and the file is closed
RewriteClose ==
  /\ writer.pc = "writing"
  /\ writer.written = Len(writer.content.lines)
  /\ writer' = [writer EXCEPT !.pc = "done"]
  /\ UNCHANGED <<files, parts, now, op, arg, before, out, steps>>

\* a dashboard session reads the file (load_history: pd.read_csv(p))
DashboardLoad ==
  /\ out' = [status |-> "read",
              exists |-> files[STATS_PATH].exists,
              lines |-> files[STATS_PATH].lines]
  /\ UNCHANGED <<files, parts, now, op, arg, before, steps, writer>>

NextRewrite ==
  \/ UpsertLoad
  \/ NormalizeLoad
  \/ RollLoad
  \/ RewriteOpen
  \/ RewriteFlush
  \/ RewriteClose
  \/ DashboardLoad

SpecRewrite == InitUpsert /\ [][NextRewrite]_vars

----------------------------------------------------------------------------
(* A fetcher's append racing with a dashboard's read-then-rewrite          *)

\* the fetcher runs two minutes after the rows the log starts with
FetchDelay == 2 * MinuteTicks

\* fetch_once() for one configured artist, then append_csv(stats_df,
\* STATS_PATH): the row is added at the end of the file as it is then
FetcherAppend ==
  /\ steps < 1
  /\ steps' = steps + 1
  /\ now' = now + FetchDelay
  /\ LET stats_df == <<Row("B", NoId, now_utc_str(now'), 100)>>
     IN /\ files' = [files EXCEPT ![STATS_PATH] = append_csv(@, stats_df)]
        /\ out' = [NoOut EXCEPT !.status = "appended", !.input = stats_df]
  /\ UNCHANGED <<parts, op, arg, before, writer>>

NextRace ==
  \/ FetcherAppend
  \/ UpsertLoad
  \/ NormalizeLoad
  \/ RewriteOpen
  \/ RewriteFlush
  \/ RewriteClose

SpecRace == InitUpsert /\ [][NextRace]_vars

----------------------------------------------------------------------------
(* Claims about upsert_snapshot                                            *)

\* the rows of the active log as a reader parses them
Log == load_history(files[STATS_PATH])
LogBefore == load_history(before.files[STATS_PATH])

\* the minute an instant falls in (NaT: no minute)
MinuteOf(t) == IF t = NaT THEN NaT ELSE t \div MinuteTicks
SecondOf(t) == IF t = NaT THEN NaT ELSE t \div TicksPerSec
SameSlot(r, q) == r.id = q.id /\ MinuteOf(r.ts) = MinuteOf(q.ts)

Rivals == {i \in 1..Len(LogBefore) : SameSlot(LogBefore[i], arg)}
Survivors == {i \in 1..Len(Log) : SameSlot(Log[i], arg)}

----------------------------------------------------------------------------
(* Claims about retention (roll_and_archive, cap_and_archive)              *)

RollOps == {"roll_and_archive", "cap_and_archive"}

\* the active log the last roll read, and the one it left
ActivePath == IF op = "cap_and_archive" THEN CHAN_CSV ELSE STATS_PATH
ActiveBefore == read_csv(before.files[ActivePath])
ActiveAfter == read_csv(files[ActivePath])

\* the archive the last roll appends to, before and after it
ArchBefore ==
  IF op = "cap_and_archive" THEN Part(before.parts, stamp(now))
  ELSE before.files[ARCHIVE_PATH]
ArchAfter ==
  IF op = "cap_and_archive" THEN Part(parts, stamp(now)) ELSE files[ARCHIVE_PATH]

\* the lines the last roll added to its archive, the header left out
Archived ==
  LET added == SubSeq(ArchAfter.lines, Len(ArchBefore.lines) + 1, Len(ArchAfter.lines))
  IN Filter(added, {i \in 1..Len(added) : added[i] # Header})

\* the cutoff of the last roll: now - retention_days
Cutoff ==
  IF op = "cap_and_archive" THEN now - RETENTION_DAYS * DayTicks
  ELSE now - ROLLING_DAYS * DayTicks

\* C4 (as claimed): roll loses and duplicates no row: every row of the
\* active log before roll is afterwards in exactly one of the active log and
\* the archive, and kept_count + archived_count is the row count before roll.
C4_RollConservesRows ==
  op \in RollOps =>
    /\ \A r \in SeqToSet(ActiveBefore) :
          Count(ActiveBefore, r) = Count(ActiveAfter, r) + Count(Archived, r)
    /\ Len(ActiveAfter) + Len(Archived) = Len(ActiveBefore)
    /\ op = "cap_and_archive" => out.kept + out.archived = Len(ActiveBefore)

\* C5: after roll with cutoff = now - retention_days every row left in the
\* active log has captured_at >= cutoff, a row exactly at the cutoff is kept,
\* every row added to the archive has captured_at < cutoff, and no row added
\* to the archive is still in the active log.
C5_RetentionCutoff ==
  op \in RollOps =>
    /\ \A i \in 1..Len(ActiveAfter) :
          ActiveAfter[i].ts # NaT /\ ActiveAfter[i].ts >= Cutoff
    /\ \A i \in 1..Len(ActiveBefore) :
          ActiveBefore[i].ts = Cutoff =>
            Count(ActiveAfter, ActiveBefore[i]) = Count(ActiveBefore, ActiveBefore[i])
    /\ \A i \in 1..Len(Archived) :
          Archived[i].ts # NaT /\ Archived[i].ts < Cutoff
    /\ SeqToSet(Archived) \cap SeqToSet(ActiveAfter) = {}

\* C5 witness: a roll has kept a row stamped exactly at the cutoff and has
\* archived an older one.
C5_Witness ==
  /\ op \in RollOps
  /\ \E i \in 1..Len(ActiveBefore) : ActiveBefore[i].ts = Cutoff
  /\ \E i \in 1..Len(ActiveAfter) : ActiveAfter[i].ts = Cutoff
  /\ Archived # <<>>

IsPrefix(s, t) == Len(s) <= Len(t) /\ \A i \in 1..Len(s) : s[i] = t[i]

\* an archive file b that became a: nothing of b removed or altered, and the
\* header only as the first line of the file
AppendedOnly(b, a) ==
  /\ b.exists => (a.exists /\ IsPrefix(b.lines, a.lines))
  /\ a.exists => (a.lines # <<>> /\ \A i \in 1..Len(a.lines) : (a.lines[i] = Header) <=> (i = 1))

\* C6: the archive is append-only: whatever the runs (several on one day
\* included), the lines an archive partition held before an operation are
\* still its first lines after it, in order and unaltered, and the header is
\* the first line of the partition and no other.
C6_ArchiveAppendOnly ==
  /\ AppendedOnly(before.files[ARCHIVE_PATH], files[ARCHIVE_PATH])
  /\ \A d \in DOMAIN before.parts :
        d \in DOMAIN parts /\ AppendedOnly(before.parts[d], parts[d])
  /\ \A d \in DOMAIN parts : AppendedOnly(Absent, parts[d])

\* C6 witness: a second roll on the same day has added rows to a partition
\* that already held rows.
C6_Witness ==
  /\ op = "cap_and_archive"
  /\ ArchBefore.exists
  /\ Len(ArchBefore.lines) >= 2
  /\ Len(ArchAfter.lines) > Len(ArchBefore.lines)

----------------------------------------------------------------------------
(* Claims about the windows and the first/last aggregates                  *)

ReadOps == {"spotify_dashboard", "youtube_dashboard", "compute_window_alerts"}

\* the log the last pass read, as it was stored before the pass
ReadLog ==
  read_csv(before.files[IF op = "youtube_dashboard" THEN CHAN_CSV ELSE STATS_PATH])

\* the last pass was a dashboard render that reached its window filter
Windowed ==
  /\ op \in {"spotify_dashboard", "youtube_dashboard"}
  /\ out.status \in {"rendered", "stopped"}
  /\ out.hours \in HoursChoices

WindowStart == now - out.hours * HourTicks

\* r is stamped within [now - hours, now]
InWindow(r) == r.ts # NaT /\ WindowStart <= r.ts /\ r.ts <= now

\* C7: filter_window(log, hours) returns exactly the rows with
\* now - hours <= captured_at <= now, each as often as the log holds it: a row
\* at exactly now - hours is in, a row a second earlier is out, a row stamped
\* later than now is out.
C7_WindowInclusive ==
  Windowed =>
    \A r \in SeqToSet(out.input) \cup SeqToSet(out.view) :
      Count(out.view, r) = IF InWindow(r) THEN Count(out.input, r) ELSE 0

\* a render whose view holds a row stamped exactly now - hours, of a log that
\* also holds a row a second earlier or a row later than now
C7_Witness ==
  /\ Windowed
  /\ \E i \in 1..Len(out.view) : out.view[i].ts = WindowStart
  /\ \E i \in 1..Len(out.input) :
       \/ out.input[i].ts = WindowStart - TicksPerSec
       \/ out.input[i].ts > now

\* the rows the aggregate of the last pass is computed over: the 7-day change
\* and the alert pass have no upper end, Growth by Channel uses the view
AggStart ==
  IF op = "spotify_dashboard" THEN now - CHANGE_DAYS * DayTicks
  ELSE IF op = "compute_window_alerts" THEN now - ALERT_WINDOW_HOURS * HourTicks
  ELSE WindowStart

InAggWindow(r) ==
  /\ r.ts # NaT
  /\ r.name \in out.sel
  /\ AggStart <= r.ts
  /\ op = "youtube_dashboard" => r.ts <= now

\* positions of the stored log whose row belongs to entity n and to the
\* aggregate's window
AggRowsOf(n) == {j \in 1..Len(ReadLog) : ReadLog[j].name = n /\ InAggWindow(ReadLog[j])}

\* C8: a record whose timestamp cannot be parsed or is missing is rejected,
\* never given a substitute instant: every row of a windowed view is a stored
\* row whose timestamp parses, and every first/last aggregate (and so every
\* alert) is of an entity with a parsable row in the window and takes its
\* values from such rows.
C8_UnparsableRejected ==
  op \in ReadOps =>
    /\ \A i \in 1..Len(out.view) :
         \E j \in 1..Len(ReadLog) : ReadLog[j] = out.view[i] /\ ReadLog[j].ts # NaT
    /\ \A a \in out.agg :
         /\ AggRowsOf(a.name) # {}
         /\ a.first = NA \/ \E j \in AggRowsOf(a.name) : ReadLog[j].val = a.first
         /\ a.last = NA \/ \E j \in AggRowsOf(a.name) : ReadLog[j].val = a.last

\* a pass over a log that holds a record without a parsable timestamp, of an
\* entity that is selected, which computed an aggregate
C8_Witness ==
  /\ op \in ReadOps
  /\ out.agg # {}
  /\ \E j \in 1..Len(ReadLog) : ReadLog[j].ts = NaT /\ ReadLog[j].name \in out.sel

\* C9: in every aggregate computation, first_value is the metric of the
\* entity's earliest row of the window and last_value the metric of its latest
\* row of the window, also when that metric is missing.
C9_FirstLastOfWindow ==
  op \in ReadOps =>
    \A a \in out.agg :
      /\ \E j \in AggRowsOf(a.name) :
           /\ \A k \in AggRowsOf(a.name) : ReadLog[j].ts <= ReadLog[k].ts
           /\ a.first = ReadLog[j].val
      /\ \E j \in AggRowsOf(a.name) :
           /\ \A k \in AggRowsOf(a.name) : ReadLog[j].ts >= ReadLog[k].ts
           /\ a.last = ReadLog[j].val

\* positions of the view of the last render that hold a row of entity n
ViewRowsOf(n) == {i \in 1..Len(out.view) : out.view[i].name = n}

\* the metric of the only row entity n has in the view
OnlyValue(n) == out.view[CHOOSE i \in ViewRowsOf(n) : TRUE].val

Growth == op = "youtube_dashboard" /\ out.status = "rendered"

\* C10 as stated: whenever the window holds exactly one row for an entity, its
\* aggregate has delta == 0 and percent_change == 0 (not undefined).
C10_SingleRowIsZero ==
  Growth =>
    \A a \in out.agg :
      Cardinality(ViewRowsOf(a.name)) = 1 =>
        a.delta = 0 /\ a.pct.defined /\ a.pct.num = 0

\* C10, amended: whenever the window holds exactly one row for an entity,
\* first and last are that row's metric; if the metric is present and not
\* zero, delta == 0 and percent_change == 0; if it is zero, delta == 0 and
\* percent_change is undefined; if it is missing, delta is missing and
\* percent_change is undefined.
C10_SingleRowAmended ==
  Growth =>
    \A a \in out.agg :
      Cardinality(ViewRowsOf(a.name)) = 1 =>
        /\ a.first = OnlyValue(a.name) /\ a.last = OnlyValue(a.name)
        /\ OnlyValue(a.name) \notin {NA, 0} =>
             a.delta = 0 /\ a.pct.defined /\ a.pct.num = 0 /\ a.pct.den # 0
        /\ OnlyValue(a.name) = 0 => a.delta = 0 /\ ~a.pct.defined
        /\ OnlyValue(a.name) = NA => a.delta = NA /\ ~a.pct.defined

\* a render whose window holds exactly one row for each of two entities, one
\* with a zero metric and one with a positive metric
C10_Witness ==
  /\ Growth
  /\ \E a, b \in out.agg :
       /\ Cardinality(ViewRowsOf(a.name)) = 1 /\ OnlyValue(a.name) = 0
       /\ ~a.pct.defined
       /\ Cardinality(ViewRowsOf(b.name)) = 1 /\ OnlyValue(b.name) > 0
       /\ b.pct.defined /\ b.pct.num = 0

----------------------------------------------------------------------------
(* Claims about the alert decision                                         *)

AlertOps == {"compute_window_alerts", "youtube_dashboard"}

\* the threshold of the last evaluation, in percent
AlertTh == IF op = "youtube_dashboard" THEN <<AlertPctNum, AlertPctDen>> ELSE out.th

\* positions of the earliest / latest row entity n has in the window
EarliestOf(n) ==
  {j \in AggRowsOf(n) : \A k \in AggRowsOf(n) : ReadLog[j].ts <= ReadLog[k].ts}
LatestOf(n) ==
  {j \in AggRowsOf(n) : \A k \in AggRowsOf(n) : ReadLog[j].ts >= ReadLog[k].ts}

\* C11: when the metric of an entity's first row in the window is 0 or
\* missing, its percent change is undefined (not 0, not infinite) and no alert
\* is produced for the entity, whatever the threshold.
C11_UndefinedPercentChange ==
  op \in AlertOps =>
    \A a \in out.alerts :
      (\E j \in EarliestOf(a.name) : ReadLog[j].val \in {0, NA}) =>
        ~a.pct.defined /\ ~a.alert

----------------------------------------------------------------------------
(* Claims about readers during a rewrite                                   *)

\* C13: a dashboard load that runs while a writer rewrites the log (upsert,
\* normalize, roll) never observes a truncated or partially written file:
\* what it reads is the complete old content or the complete new content.
C13_AtomicRewrite ==
  out.status = "read" =>
    \/ out.lines = before.files[STATS_PATH].lines
    \/ writer.pc # "idle" /\ out.lines = writer.content.lines

----------------------------------------------------------------------------
(* Claims about runs in which a write fails                                *)

\* the rows of every archive partition of the channel log
PartRows == UNION {SeqToSet(read_csv(parts[d])) : d \in DOMAIN parts}

\* the rows a log held before the last run and whose timestamp parses
Parsable(f) == {r \in SeqToSet(read_csv(f)) : r.ts # NaT}

\* C14: a persistence write that fails during an ingestion run (append,
\* archive append, overwrite of the active log) leaves the persisted state
\* uncorrupted: no row is both in the archive and in the active log (so that
\* a later run does not archive it again), and no row the log held is lost.
C14_NoPartialCommit ==
  /\ SeqToSet(read_csv(files[STATS_PATH])) \cap SeqToSet(read_csv(files[ARCHIVE_PATH])) = {}
  /\ SeqToSet(read_csv(files[CHAN_CSV])) \cap PartRows = {}
  /\ op = "spotify_run_failed" =>
       Parsable(before.files[STATS_PATH]) \subseteq
         SeqToSet(read_csv(files[STATS_PATH])) \cup SeqToSet(read_csv(files[ARCHIVE_PATH]))
  /\ op = "youtube_run_failed" =>
       Parsable(before.files[CHAN_CSV]) \subseteq
         SeqToSet(read_csv(files[CHAN_CSV])) \cup PartRows

----------------------------------------------------------------------------
(* Claims about ingestion runs: fetch failures, the ledger, dry runs       *)

\* the entities of the last run and the log it appends to
RunEntities ==
  IF op = "youtube_main" THEN SeqToSet(unique(read_csv(before.files[MAP_PATH]), 1))
  ELSE Names
RunLog == read_csv(files[IF op = "youtube_main" THEN CHAN_CSV ELSE STATS_PATH])

\* C15: when the fetch of one entity fails, the run still appends the
\* snapshot of every other entity whose fetch succeeded.
C15_PartialFailureTolerance ==
  (op \in {"spotify_main", "youtube_main"} /\ ~out.dry_run) =>
    \A n \in RunEntities :
      out.outcomes[n] = "ok" =>
        \E i \in 1..Len(RunLog) : RunLog[i].name = n /\ RunLog[i].ts = now_utc_str(now)

\* the lines of a ledger that are not empty
RECURSIVE NonBlank(_)
NonBlank(lines) ==
  IF lines = <<>> THEN <<>>
  ELSE (IF Head(lines) = <<>> THEN <<>> ELSE <<Head(lines)>>) \o NonBlank(Tail(lines))

LedgerBefore == NonBlank(before.files[RUNS_LOG].lines)
LedgerAfter == NonBlank(files[RUNS_LOG].lines)

\* C18: every ingestion run, successful or failed, adds exactly one record to
\* runs.log, on a line of its own, stamped with the run's instant, and leaves
\* every earlier record (of either fetcher) as it was.
C18_RunLedger ==
  op \in {"roll_and_archive", "spotify_main", "youtube_main"} =>
    /\ Len(LedgerAfter) = Len(LedgerBefore) + 1
    /\ \A i \in 1..Len(LedgerBefore) : LedgerAfter[i] = LedgerBefore[i]
    /\ Len(LedgerAfter[Len(LedgerAfter)]) = 1
    /\ LedgerAfter[Len(LedgerAfter)][1].ts = now_utc_str(now)

\* C19: main(dry_run=True) of the YouTube fetcher creates or modifies no CSV
\* file: channel stats, archive partitions and channel map are as before.
C19_DryRunWritesNoCsv ==
  (op = "youtube_main" /\ out.dry_run) =>
    /\ files[CHAN_CSV] = before.files[CHAN_CSV]
    /\ files[MAP_PATH] = before.files[MAP_PATH]
    /\ parts = before.parts

----------------------------------------------------------------------------
(* Claims about what a render leaves behind                                *)

\* C16: rendering a dashboard (loading, windowing, aggregating) leaves every
\* persisted file as it was: the presentation layer never writes back to the
\* store.
C16_RenderWritesNothing ==
  op \in {"spotify_dashboard", "youtube_dashboard"} =>
    files = before.files /\ parts = before.parts

----------------------------------------------------------------------------
(* Claims about yt_get                                                     *)

\* the first request that got an answer other than a retryable status, if any
FirstFinal(rs) ==
  LET ks == {k \in 1..MaxAttempts : rs[k] \notin Retryable}
  IN IF ks = {} THEN 0 ELSE CHOOSE k \in ks : \A j \in ks : k <= j

----------------------------------------------------------------------------
(* Claims about which rows an upsert removes                               *)

\* the rows an upsert starts from: the log as loaded, and the new snapshot
UpsertInput ==
  LET hist == load_history(before.files[STATS_PATH])
  IN Append(hist, [arg EXCEPT !.ts = to_utc(arg.ts)])

\* C20: after an upsert every row of its input whose timestamp parses has a
\* survivor of the same entity (artist name) in the same minute: a row is
\* removed only in favour of another row of its own entity and minute, also
\* when the rows carry no artist_id.
C20_OnlySameEntityCollapses ==
  op = "upsert" =>
    LET inp   == UpsertInput
        after == read_csv(files[STATS_PATH])
    IN \A i \in 1..Len(inp) :
         inp[i].ts # NaT =>
           \E j \in 1..Len(after) :
             /\ after[j].name = inp[i].name
             /\ after[j].ts # NaT
             /\ floorT(after[j].ts) = floorT(inp[i].ts)

----------------------------------------------------------------------------
(* Claims about a fetcher and a dashboard writing the same log             *)

\* C21: once the fetcher's append and the dashboard's read-then-rewrite
\* (normalize_csv or upsert_snapshot) have both finished, in whatever order
\* their steps were taken, every row the fetcher appended is in the active
\* log.
C21_NoLostUpdate ==
  (out.status = "appended" /\ writer.pc = "done") =>
    \A i \in 1..Len(out.input) :
      out.input[i] \in SeqToSet(read_csv(files[STATS_PATH]))

====
